---- MODULE Spec2Model ----
(***************************************************************************)
(* StudyMate: a Streamlit session (src/app.py) over an in-memory vector    *)
(* store.  The session state is the store `vs` and the document list       *)
(* `documents`; every user interaction reruns the script and executes at   *)
(* most one of the three handlers: "Clear All Data", "Process Files" and   *)
(* "Get Answer".  What the run writes to the page is kept in `msgs`,       *)
(* `hits`, `contexts` and `answer`.                                         *)
(*                                                                         *)
(* vector_store.py and utils.py are not among the source files: the store  *)
(* operations (add, search, reset) are modelled from spec.md section 4.1,  *)
(* and the collaborators of utils.py (extractor, chunker, embedder,        *)
(* generator) are oracles whose outcome is chosen by the environment.      *)
(***************************************************************************)
EXTENDS Integers, Sequences, FiniteSets, TLC

VARIABLES
    vs,           \* st.session_state.vs: the store's entry list
    documents,    \* st.session_state.documents
    pc,           \* "idle", or "batch" inside the Process Files loop
    total_files,  \* local of Process Files: len(uploaded_files)
    idx,          \* number of loop iterations of the batch already run
    processed,    \* local of Process Files
    msgs,         \* st.info / st.warning / st.error / st.success of this run
    q_emb,        \* local of Get Answer (<<>> when there is none)
    top_k,        \* the slider value read by Get Answer
    hits,         \* local of Get Answer, listed on the page as Sources
    contexts,     \* local of Get Answer: what the generator is given
    answer,       \* the text of the answer box ("" when there is none)
    discarded     \* history: the entries this run's reset discarded

vars == <<vs, documents, pc, total_files, idx, processed, msgs,
          q_emb, top_k, hits, contexts, answer, discarded>>

-----------------------------------------------------------------------------
(* Bound of the model: the entries the store may hold *)
MaxStore == 3

(* Program constants: the top_k slider of app.py line 172 *)
TopKMin == 1
TopKMax == 10
TopKDefault == 4

(* The inputs *)

\* The files the uploader may hold, in its order: a batch is the first one
\* or both, and its i-th file is FileName(i).
FileNameList == <<"a.pdf", "b.docx">>
FileName(i) == FileNameList[i]
MaxFiles == Len(FileNameList)
\* The document list holds at most the records of one full batch.
MaxDocs == MaxFiles
\* Lengths of an extracted text
TextLens == {0, 1}
\* Numbers of chunks of a text, and of embeddings the embedder returns
ChunkCounts == {0, 1, 2}

\* Stored embeddings, of dimension 2; <<0, 0>> has zero norm.
Vecs == {<<1, 0>>, <<0, 1>>, <<0, 0>>}
\* A question's embedding has the store's dimension and a non-zero norm.
\* Against the stored embeddings the two score 1, 1/2, 0 and -1/2.
QueryVecs == {<<1, 0>>, <<-1, 1>>}
\* Slider values: those above the store's capacity all behave alike.
TopKs == {k \in TopKMin..TopKMax : k <= MaxStore + 1}

Min(a, b) == IF a < b THEN a ELSE b

SeqsOf(S, lengths) == UNION {[1..m -> S] : m \in lengths}

-----------------------------------------------------------------------------
(* The vector store, spec.md section 4.1 *)

Dot(a, b) == a[1] * b[1] + a[2] * b[2]

\* Cosine similarity dot(a,b) / (norm(a) * norm(b)), zero for a stored
\* embedding of zero norm.  The square roots are not rational, so the score
\* is kept exactly as the signed square of the cosine, num/den with den > 0:
\* x |-> sgn(x) * x^2 is strictly increasing, so the order of scores and
\* their ties are those of the cosine, and 1, 0 and -1 are kept.
cosine(query, emb) ==
    LET d  == Dot(query, emb)
        nq == Dot(query, query)
        ne == Dot(emb, emb)
    IN  IF ne = 0 THEN [num |-> 0, den |-> 1]
        ELSE [num |-> IF d < 0 THEN -(d * d) ELSE d * d, den |-> nq * ne]

ScoreLess(s, t) == s.num * t.den < t.num * s.den
ScoreEq(s, t) == s.num * t.den = t.num * s.den

\* add(embeddings, metadatas): the pairs are appended in order; a length
\* mismatch fails fast and appends nothing.
add(store, embeddings, metadatas) ==
    IF Len(embeddings) # Len(metadatas)
    THEN [raised |-> TRUE, store |-> store]
    ELSE [raised |-> FALSE,
          store |-> store \o [i \in 1..Len(embeddings) |->
                        [embedding |-> embeddings[i], metadata |-> metadatas[i]]]]

\* One step of a stable sort by descending score: h goes after every hit
\* whose score is not below its own.
RECURSIVE InsertHit(_, _)
InsertHit(sorted, h) ==
    IF sorted = <<>> THEN <<h>>
    ELSE IF ScoreLess(Head(sorted).score, h.score) THEN <<h>> \o sorted
    ELSE <<Head(sorted)>> \o InsertHit(Tail(sorted), h)

RECURSIVE Ranked(_, _, _)
Ranked(store, query, n) ==
    IF n = 0 THEN <<>>
    ELSE InsertHit(Ranked(store, query, n - 1),
                   [score |-> cosine(query, store[n].embedding),
                    metadata |-> store[n].metadata])

\* search(query_embedding, top_k): the top min(top_k, size) entries, each as
\* its score and its metadata; the entry list is left as it is.
search(store, query, k) ==
    [hits |-> SubSeq(Ranked(store, query, Len(store)), 1, Min(k, Len(store))),
     store |-> store]

reset(store) == <<>>

-----------------------------------------------------------------------------
(* Messages of a run *)

Msg(level, text, file, n, m) ==
    [level |-> level, text |-> text, file |-> file, n |-> n, m |-> m]

MsgProcessing(name)   == Msg("info", "Processing", name, 0, 0)
MsgExtractError(name) == Msg("error", "Error extracting text from", name, 0, 0)
MsgNoText(name)       == Msg("warning", "No text found in", name, 0, 0)
MsgEmbedError(name)   == Msg("error", "Error generating embeddings for", name, 0, 0)
MsgAddError(name)     == Msg("error", "Error adding vectors for", name, 0, 0)
MsgProcessed(n, m)    == Msg("success", "Processed n/m files", "", n, m)
MsgCleared            == Msg("success", "Cleared all in-memory data", "", 0, 0)
MsgNoQuestion         == Msg("warning", "Please enter a question first.", "", 0, 0)
MsgSearchError        == Msg("error", "Search error", "", 0, 0)
MsgNoPassages         ==
    Msg("warning", "No relevant passages found. Please upload documents first.", "", 0, 0)
MsgAnswerError        == Msg("error", "Answer generation error", "", 0, 0)

AnswerFailed == "Error: Unable to generate answer."
AnswerText == "answer"

-----------------------------------------------------------------------------
(* The collaborators of utils.py, as the outcomes a call may have *)

\* extract_text_from_uploaded_file: a text of some length, possibly empty
Text(n) == [i \in 1..n |-> "x"]
Texts == {Text(n) : n \in TextLens}

\* chunk_text: an ordered sequence of spans of the text, possibly none; a
\* span is named by its ordinal
Chunks(n) == [i \in 1..n |-> [span |-> i]]
Chunkings == {Chunks(n) : n \in ChunkCounts}

\* get_embeddings_batch: raises, or returns a sequence of embeddings (which
\* the embedder's contract, not its caller, aligns with the chunks)
EmbedRaises == [raises |-> TRUE, embeddings |-> <<>>]
EmbedOutcomes ==
    {EmbedRaises} \cup
    {[raises |-> FALSE, embeddings |-> e] : e \in SeqsOf(Vecs, ChunkCounts)}

\* An uploaded file with the outcome of each collaborator on it: extraction
\* raises, or yields an empty text, or yields a text that is chunked and
\* embedded
UploadedFiles(f) ==
    {[name |-> f, extract_raises |-> TRUE, text |-> <<>>,
      chunks |-> <<>>, embed |-> EmbedRaises],
     [name |-> f, extract_raises |-> FALSE, text |-> <<>>,
      chunks |-> <<>>, embed |-> EmbedRaises]}
    \cup
    [name : {f}, extract_raises : {FALSE}, text : Texts \ {<<>>},
     chunks : Chunkings, embed : EmbedOutcomes]

-----------------------------------------------------------------------------
(* Session start, app.py lines 60-63 *)

Init ==
    /\ vs = <<>>
    /\ documents = <<>>
    /\ pc = "idle"
    /\ total_files = 0
    /\ idx = 0
    /\ processed = 0
    /\ msgs = <<>>
    /\ q_emb = <<>>
    /\ top_k = TopKDefault
    /\ hits = <<>>
    /\ contexts = <<>>
    /\ answer = ""
    /\ discarded = 0

\* A run that does not reach the Get Answer handler shows no answer.
NoQuery ==
    /\ q_emb' = <<>>
    /\ top_k' = TopKDefault
    /\ hits' = <<>>
    /\ contexts' = <<>>
    /\ answer' = ""

-----------------------------------------------------------------------------
(* "Clear All Data", app.py lines 77-80 *)

\* Mutant: line 79 is missing, the document list survives the reset.
ClearAllDataKeepsDocuments ==
    /\ pc = "idle"
    /\ vs' = reset(vs)
    /\ discarded' = Len(vs)
    /\ msgs' = <<MsgCleared>>
    /\ NoQuery
    /\ UNCHANGED <<documents, pc, total_files, idx, processed>>

ClearAllData ==
    /\ pc = "idle"
    /\ vs' = reset(vs)
    /\ discarded' = Len(vs)
    /\ documents' = <<>>
    /\ msgs' = <<MsgCleared>>
    /\ NoQuery
    /\ UNCHANGED <<pc, total_files, idx, processed>>

-----------------------------------------------------------------------------
(* "Process Files", app.py lines 119-161 *)

\* The loop's state between two iterations
LoopState ==
    [vs |-> vs, documents |-> documents, msgs |-> msgs,
     idx |-> idx, processed |-> processed]

\* `continue`, or the end of the loop body: on to the next file
Continue(s) == [s EXCEPT !.idx = s.idx + 1]

Report(s, m) == [s EXCEPT !.msgs = Append(@, m)]

\* Mutant: the extraction failure ends the loop (`break` for `continue`).
OnExtractErrorAborts(uf, s) ==
    [Report(s, MsgExtractError(uf.name)) EXCEPT !.idx = total_files]

\* lines 128-130
OnExtractError(uf, s) == Continue(Report(s, MsgExtractError(uf.name)))

\* lines 132-134
OnNoText(uf, s) == Continue(Report(s, MsgNoText(uf.name)))

\* lines 140-142
OnEmbedError(uf, s) == Continue(Report(s, MsgEmbedError(uf.name)))

\* Mutant: the add failure is swallowed (`except: continue`, no st.error).
OnAddErrorSilent(uf, s) == Continue(s)

\* Mutant: the add failure is reported but the `continue` is missing, so the
\* document record is appended all the same.
OnAddErrorFallsThrough(uf, s) ==
    Continue([Report(s, MsgAddError(uf.name)) EXCEPT
        !.documents = Append(@, [name |-> uf.name, length |-> Len(uf.text),
                                 chunks |-> Len(uf.chunks)]),
        !.processed = @ + 1])

\* lines 148-150
OnAddError(uf, s) == Continue(Report(s, MsgAddError(uf.name)))

\* line 144
Metadatas(uf, chunks) ==
    [i \in 1..Len(chunks) |->
        [document |-> uf.name, chunk_index |-> i - 1, text |-> chunks[i]]]

\* Mutant: each file is added to a fresh store that replaces the session's.
AddToFreshStore(store, embeddings, metadatas) == add(<<>>, embeddings, metadatas)

\* line 147
AddToStore(store, embeddings, metadatas) == add(store, embeddings, metadatas)

\* lines 152-158; uploaded_at is the wall clock at the time, shown only
OnAdded(uf, s, store, chunks) ==
    Continue([s EXCEPT
        !.vs = store,
        !.documents = Append(@, [name |-> uf.name, length |-> Len(uf.text),
                                 chunks |-> Len(chunks)]),
        !.processed = @ + 1])

\* One iteration of the loop, lines 124-158.  The iterations are the
\* positions of the one handler: while pc = "batch" no other handler is
\* enabled, as a Streamlit run executes the script sequentially.
ProcessOne(uf, s0) ==
    LET s == Report(s0, MsgProcessing(uf.name))
    IN  IF uf.extract_raises THEN OnExtractError(uf, s)
        ELSE IF uf.text = <<>> THEN OnNoText(uf, s)
        ELSE LET chunks == uf.chunks
             IN  IF uf.embed.raises THEN OnEmbedError(uf, s)
                 ELSE LET embeddings == uf.embed.embeddings
                          metadatas == Metadatas(uf, chunks)
                          added == AddToStore(s.vs, embeddings, metadatas)
                      IN  IF added.raised THEN OnAddError(uf, s)
                          ELSE OnAdded(uf, s, added.store, chunks)

\* The click, lines 119-122: uploaded_files is not empty
ProcessFilesStart ==
    /\ pc = "idle"
    /\ \E n \in 1..MaxFiles : total_files' = n
    /\ pc' = "batch"
    /\ idx' = 0
    /\ processed' = 0
    /\ msgs' = <<>>
    /\ NoQuery
    /\ discarded' = 0
    /\ UNCHANGED <<vs, documents>>

ProcessFileOf(uf) ==
    /\ pc = "batch"
    /\ idx < total_files
    /\ LET s == ProcessOne(uf, LoopState)
       IN  /\ Len(s.vs) <= MaxStore
           /\ Len(s.documents) <= MaxDocs
           /\ vs' = s.vs
           /\ documents' = s.documents
           /\ msgs' = s.msgs
           /\ idx' = s.idx
           /\ processed' = s.processed
    /\ UNCHANGED <<pc, total_files, q_emb, top_k, hits, contexts, answer, discarded>>

\* line 124: the next file of uploaded_files, while there is one
ProcessFile ==
    /\ pc = "batch"
    /\ idx < total_files
    /\ \E uf \in UploadedFiles(FileName(idx + 1)) : ProcessFileOf(uf)

\* lines 160-161
ProcessFilesEnd ==
    /\ pc = "batch"
    /\ idx >= total_files
    /\ msgs' = Append(msgs, MsgProcessed(processed, total_files))
    /\ pc' = "idle"
    /\ total_files' = 0
    /\ idx' = 0
    /\ processed' = 0
    /\ UNCHANGED <<vs, documents, q_emb, top_k, hits, contexts, answer, discarded>>

-----------------------------------------------------------------------------
(* "Get Answer", app.py lines 165-215 *)

Reverse(q) == [i \in 1..Len(q) |-> q[Len(q) + 1 - i]]

\* Mutant: the hits are taken in ascending order.
QueryHitsReversed(store, query, k) == Reverse(search(store, query, k).hits)

\* Mutant: the slider's value is not passed on, search runs with its default.
QueryHitsDefaultK(store, query, k) == search(store, query, TopKDefault).hits

\* Mutant: the call leaves the session's entry list sorted by score.
RECURSIVE RankedEntries(_, _, _)
RankedEntries(store, query, n) ==
    IF n = 0 THEN <<>>
    ELSE InsertHit(RankedEntries(store, query, n - 1),
                   [score |-> cosine(query, store[n].embedding), entry |-> store[n]])
QueryStoreSorted(store, query, k) ==
    LET r == RankedEntries(store, query, Len(store))
    IN  [i \in 1..Len(r) |-> r[i].entry]

\* line 181: the hits of the call, and the session's store after it
QueryHits(store, query, k) == search(store, query, k).hits
QueryStore(store, query, k) == search(store, query, k).store

\* line 190
Contexts(hs) ==
    [i \in 1..Len(hs) |->
        [text |-> hs[i].metadata.text, source |-> hs[i].metadata.document]]

\* lines 175-176
AskBlank ==
    /\ msgs' = <<MsgNoQuestion>>
    /\ NoQuery
    /\ UNCHANGED vs

\* lines 180, 182-188: the embedder raises (or returns no embedding)
AskEmbedFails(k) ==
    /\ top_k' = k
    /\ q_emb' = <<>>
    /\ hits' = <<>>
    /\ msgs' = <<MsgSearchError, MsgNoPassages>>
    /\ contexts' = <<>>
    /\ answer' = ""
    /\ UNCHANGED vs

\* lines 180-215
AskSearch(q, k, gen_raises) ==
    LET hs == QueryHits(vs, q, k)
    IN  /\ top_k' = k
        /\ q_emb' = q
        /\ hits' = hs
        /\ vs' = QueryStore(vs, q, k)
        /\ IF hs = <<>>
           THEN /\ msgs' = <<MsgNoPassages>>
                /\ contexts' = <<>>
                /\ answer' = ""
           ELSE /\ contexts' = Contexts(hs)
                /\ msgs' = IF gen_raises THEN <<MsgAnswerError>> ELSE <<>>
                /\ answer' = IF gen_raises THEN AnswerFailed ELSE AnswerText

\* The button is on the page only while the document list is not empty.
GetAnswer ==
    /\ pc = "idle"
    /\ documents # <<>>
    /\ \/ AskBlank
       \/ \E k \in TopKs : AskEmbedFails(k)
       \/ \E q \in QueryVecs, k \in TopKs, g \in BOOLEAN : AskSearch(q, k, g)
    /\ discarded' = 0
    /\ UNCHANGED <<documents, pc, total_files, idx, processed>>

-----------------------------------------------------------------------------

Next ==
    \/ ClearAllData
    \/ ProcessFilesStart
    \/ ProcessFile
    \/ ProcessFilesEnd
    \/ GetAnswer

Spec == Init /\ [][Next]_vars

-----------------------------------------------------------------------------
(* Properties *)

HasMsg(m) == \E i \in 1..Len(msgs) : msgs[i] = m

\* The Get Answer handler of this run embedded the question and searched.
Searched == q_emb # <<>>

\* The messages of this run that report a skipped file
Skipped == {i \in 1..Len(msgs) : msgs[i].level \in {"error", "warning"}}

IsPrefix(s, t) == Len(s) <= Len(t) /\ SubSeq(t, 1, Len(s)) = s

\* Entry a of the store ranks before entry b for the question q: a higher
\* score, or the same score and an earlier insertion.
Outranks(q, a, b) ==
    LET sa == cosine(q, vs[a].embedding)
        sb == cosine(q, vs[b].embedding)
    IN  ScoreLess(sb, sa) \/ (ScoreEq(sa, sb) /\ a < b)

RECURSIVE SumChunks(_)
SumChunks(docs) ==
    IF docs = <<>> THEN 0 ELSE Head(docs).chunks + SumChunks(Tail(docs))

\* The file's collaborators all succeed, and the embedder returns as many
\* embeddings as there are chunks (Aligned) or another number (Mismatched).
ReachesAdd(uf) == ~uf.extract_raises /\ uf.text # <<>> /\ ~uf.embed.raises
Aligned(uf) == ReachesAdd(uf) /\ Len(uf.embed.embeddings) = Len(uf.chunks)
Mismatched(uf) == ReachesAdd(uf) /\ Len(uf.embed.embeddings) # Len(uf.chunks)

\* The entries an aligned file adds, in order
Pairs(uf) ==
    [i \in 1..Len(uf.chunks) |->
        [embedding |-> uf.embed.embeddings[i],
         metadata |-> [document |-> uf.name, chunk_index |-> i - 1,
                       text |-> uf.chunks[i]]]]

\* C1: in a batch, whatever the outcomes of the earlier files (extraction
\* failure, empty text, embedding failure, add failure, success), the loop
\* has started exactly the files up to its position and can always take its
\* next step; the batch ends with the report "Processed n/m", by which all m
\* files have been started and n is the number of files not skipped.
C1_BatchProcessesEveryFile ==
    /\ pc = "batch" =>
          /\ idx <= total_files
          /\ \A i \in 1..total_files :
                HasMsg(MsgProcessing(FileName(i))) <=> i <= idx
          /\ idx < total_files => ENABLED ProcessFile
          /\ idx = total_files => ENABLED ProcessFilesEnd
    /\ \A n, m \in 0..MaxFiles : HasMsg(MsgProcessed(n, m)) =>
          /\ pc = "idle"
          /\ msgs[Len(msgs)] = MsgProcessed(n, m)
          /\ m >= 1
          /\ \A i \in 1..m : HasMsg(MsgProcessing(FileName(i)))
          /\ n = m - Cardinality(Skipped)

\* C1 witness: a batch of two files has ended; the first file failed in
\* extraction and the second was processed.
C1_Witness ==
    msgs = <<MsgProcessing(FileName(1)), MsgExtractError(FileName(1)),
             MsgProcessing(FileName(2)), MsgProcessed(1, 2)>>

\* C2: a file whose embeddings and metadatas differ in number makes add fail:
\* the store and the document list are left as they were and the failure is
\* reported as that file's error.
C2_MismatchedAddFailsAndIsReported ==
    [][(pc = "batch" /\ idx < total_files) =>
          \A uf \in UploadedFiles(FileName(idx + 1)) :
              (Mismatched(uf) /\ ProcessFileOf(uf)) =>
                  /\ add(vs, uf.embed.embeddings, Metadatas(uf, uf.chunks)).raised
                  /\ vs' = vs
                  /\ documents' = documents
                  /\ processed' = processed
                  /\ msgs' = msgs \o <<MsgProcessing(uf.name),
                                        MsgAddError(uf.name)>>]_vars

\* C2 witness: the second file of a batch failed in add while the store
\* held the first file's entries.
C2_Witness ==
    /\ HasMsg(MsgAddError(FileName(2)))
    /\ Len(documents) = 1 /\ documents[1].name = FileName(1)
    /\ Len(vs) = 2

\* C3: the hits of a search are entries of the store, each with its score,
\* in descending order of score, equal scores in insertion order, and no
\* entry left out ranks before one that is in.
C3_HitsAreTheBestInOrder ==
    Searched =>
        \E pos \in [1..Len(hits) -> 1..Len(vs)] :
            /\ \A i \in 1..Len(hits) :
                  hits[i] = [score |-> cosine(q_emb, vs[pos[i]].embedding),
                             metadata |-> vs[pos[i]].metadata]
            /\ \A i, j \in 1..Len(hits) : i < j => Outranks(q_emb, pos[i], pos[j])
            /\ \A e \in 1..Len(vs) : \A i \in 1..Len(hits) :
                  (\A j \in 1..Len(hits) : pos[j] # e) => Outranks(q_emb, pos[i], e)

\* C3 witness: the store holds <<1,0>>, <<0,1>>, <<1,0>> in that order; the
\* question <<1,0>> with top_k = 2 returns entries 1 and 3, both of score 1.
C3_Witness ==
    /\ Len(vs) = 3
    /\ vs[1].embedding = <<1, 0>> /\ vs[2].embedding = <<0, 1>>
    /\ vs[3].embedding = <<1, 0>>
    /\ q_emb = <<1, 0>> /\ top_k = 2
    /\ hits = <<[score |-> [num |-> 1, den |-> 1], metadata |-> vs[1].metadata],
                [score |-> [num |-> 1, den |-> 1], metadata |-> vs[3].metadata]>>
    /\ vs[1].metadata # vs[3].metadata

\* C4: a search over a store of n entries returns min(top_k, n) hits: some
\* when n >= 1, none when n = 0.
C4_HitCountIsMinOfTopKAndSize ==
    Searched =>
        /\ top_k >= 1
        /\ Len(hits) = Min(top_k, Len(vs))
        /\ (Len(vs) >= 1 => hits # <<>>)
        /\ (Len(vs) = 0 => hits = <<>> /\ ~HasMsg(MsgSearchError))

\* C4 witness: three entries and top_k = 2 give two hits.
C4_Witness == Searched /\ Len(vs) = 3 /\ top_k = 2 /\ Len(hits) = 2

\* C5: Clear All Data, from any state, leaves the store and the document
\* list empty; and an empty store answers every search with no hits and
\* stays empty in every step that is not a file's add.
C5_ResetEmptiesStoreAndDocuments ==
    [][/\ ClearAllData =>
              /\ Len(vs') = 0
              /\ documents' = <<>>
              /\ \A q \in QueryVecs, k \in TopKs : search(vs', q, k).hits = <<>>
       /\ (Len(vs) = 0 /\ ~ProcessFile) =>
              /\ Len(vs') = 0
              /\ \A q \in QueryVecs, k \in TopKs : search(vs', q, k).hits = <<>>
              /\ hits' = <<>>]_vars

\* C5 witness: the page after Clear All Data has discarded a full store.
C5_Witness ==
    /\ msgs = <<MsgCleared>> /\ discarded = MaxStore
    /\ vs = <<>> /\ documents = <<>>

\* C6: Get Answer leaves the store as it was, so the search it made, made
\* again on the store it left, returns the same hits in the same order.
C6_SearchDoesNotMutate ==
    [][GetAnswer =>
          /\ vs' = vs
          /\ documents' = documents
          /\ Searched' => hits' = search(vs', q_emb', top_k').hits]_vars

\* C6 witness: a search whose best hit is not the store's first entry.
C6_Witness ==
    /\ Searched /\ Len(vs) >= 2 /\ hits # <<>>
    /\ hits[1].metadata # vs[1].metadata

\* C7: "No relevant passages found" is shown exactly when the question was
\* embedded and searched and there were no hits, and never beside
\* "Search error".  Stated over a store that holds entries, where a search
\* that succeeds has hits, so that the message can only come from a failure.
C7_NothingFoundOnlyOnEmptyResult ==
    Len(vs) >= 1 =>
        /\ HasMsg(MsgNoPassages) <=> (Searched /\ hits = <<>>)
        /\ ~(HasMsg(MsgNoPassages) /\ HasMsg(MsgSearchError))

\* C8: a file whose add succeeds appends exactly its pairs, in order, after
\* the entries already stored; every step either keeps the stored entries
\* as a prefix of the store or is Clear All Data.
C8_StoreIsAppendOnly ==
    [][/\ (pc = "batch" /\ idx < total_files) =>
              \A uf \in UploadedFiles(FileName(idx + 1)) :
                  (Aligned(uf) /\ ProcessFileOf(uf)) =>
                      /\ vs' = vs \o Pairs(uf)
                      /\ Len(vs') = Len(vs) + Len(uf.chunks)
       /\ IsPrefix(vs, vs') \/ (ClearAllData /\ vs' = <<>>)]_vars

\* C8 witness: a file of one chunk added after a file of two chunks.
C8_Witness ==
    /\ Len(documents) = 2 /\ Len(vs) = 3
    /\ vs[1].metadata.document = FileName(1) /\ vs[1].metadata.chunk_index = 0
    /\ vs[2].metadata.document = FileName(1) /\ vs[2].metadata.chunk_index = 1
    /\ vs[3].metadata.document = FileName(2) /\ vs[3].metadata.chunk_index = 0

\* C9: the store holds as many entries as the records of the document list
\* count chunks.
C9_StoreSizeIsSumOfChunkCounts == Len(vs) = SumChunks(documents)

\* C9 witness: after a batch in which one file failed in add and one was
\* added, over an earlier document.
C9_Witness ==
    /\ pc = "idle"
    /\ HasMsg(MsgAddError(FileName(1)))
    /\ HasMsg(MsgProcessed(1, 2))
    /\ Len(documents) = 2 /\ Len(vs) = 3

\* C10: while the document list is not empty the store holds an entry.
C10_DocumentsImplyEntries == documents # <<>> => Len(vs) >= 1

====
